---------------------------- MODULE Spec2Model ----------------------------
(***************************************************************************)
(* Event identity and event collection of nyc-event-automation             *)
(* (src/data_store/models.py).                                             *)
(*                                                                         *)
(* Strings are sequences of one-character strings, so that indexing,       *)
(* splitting and joining are computed as Python computes them.  A datetime *)
(* is [day, time]: the calendar day is 2025-07-2<day> and time is the time *)
(* of day.  hashlib.md5(...).hexdigest()[:12] is modelled as a collision-  *)
(* free tag of the hashed string: two digests are equal exactly when the   *)
(* hashed strings are.                                                     *)
(***************************************************************************)
EXTENDS Integers, Sequences, FiniteSets, TLC

VARIABLES
    events,     \* EventCollection.events: the ordered list of EventModel
    idIndex,    \* EventCollection._id_index: event_id -> EventModel
    op,         \* the last operation called and its arguments
    ret,        \* what the last operation returned
    rawA, rawB, \* constructor arguments of two records under comparison
    evA, evB,   \* the two constructed EventModel objects (None before)
    tracking,   \* data/digest_tracking.json: sent_events and digest_history
    tracker,    \* DigestTracker.tracking_data of the tracker in use
    sentLog,    \* data/outreach_sent.json: sent_events and details
    outbox,     \* the emails the mail server has accepted, oldest first
    now         \* what datetime.now() returns

\* the state of the email service
mailVars == <<tracking, tracker, sentLog, outbox, now>>

vars == <<events, idIndex, op, ret, rawA, rawB, evA, evB, mailVars>>

\* Python's None: distinct from every string of characters
None == <<"None">>

\* the tracking data of a DigestTracker whose file does not exist yet
EmptyTracking ==
    [sent_events |-> [id \in {} |-> None], digest_history |-> <<>>]

\* the outreach log before _record_sent has written it
EmptySentLog == [sent_events |-> <<>>, details |-> <<>>]

\* no email has been sent and nothing has been tracked
NoMail ==
    /\ tracking = EmptyTracking
    /\ tracker = EmptyTracking
    /\ sentLog = EmptySentLog
    /\ outbox = <<>>
    /\ now = [day |-> 0, time |-> 0]

-----------------------------------------------------------------------------
(* Bounds of the model *)

MaxEvents == 3      \* longest event list explored
MaxBatch == 2       \* longest list handed to add_many
MaxInitial == 2     \* longest list handed to EventCollection(events)
MaxTextLen == 5     \* longest text handed to one field of a constructed record
MaxQueryLen == 5    \* longest collection the date queries are run on
MaxOutreach == 2    \* longest event list handed to send_outreach_for_events
MaxOutbox == 3      \* most emails the mail server accepts
MaxTracked == 2     \* longest event list handed to the DigestTracker
MaxDigests == 2     \* most entries of the digest history
MaxScraped == 2     \* most events one scraping run finds
MaxDay == 2         \* last day the clock reaches

-----------------------------------------------------------------------------
(* Characters and strings *)

Whitespace == {" ", "\t", "\n"}

\* a character with ord(char) < 32 that str.split() does not treat as whitespace
CtrlChar == "\\x01"

IsControl(ch) == ch = CtrlChar \/ ch = "\t" \/ ch = "\n"

UpperChars == <<"A","B","C","D","E","F","G","H","I","J","K","L","M",
                "N","O","P","Q","R","S","T","U","V","W","X","Y","Z">>
LowerChars == <<"a","b","c","d","e","f","g","h","i","j","k","l","m",
                "n","o","p","q","r","s","t","u","v","w","x","y","z">>

\* the lower-case letter of every upper-case letter
ToLower ==
    [ch \in {UpperChars[i] : i \in 1..26} |->
        LowerChars[CHOOSE i \in 1..26 : UpperChars[i] = ch]]

LowerChar(ch) == IF ch \in DOMAIN ToLower THEN ToLower[ch] ELSE ch

\* str.lower()
Lower(s) == [i \in 1..Len(s) |-> LowerChar(s[i])]

RECURSIVE SplitFrom(_, _, _)
\* str.split(): the maximal runs of non-whitespace characters, in order
SplitFrom(s, i, word) ==
    IF i > Len(s)
    THEN IF word = <<>> THEN <<>> ELSE <<word>>
    ELSE IF s[i] \in Whitespace
         THEN IF word = <<>>
              THEN SplitFrom(s, i + 1, <<>>)
              ELSE <<word>> \o SplitFrom(s, i + 1, <<>>)
         ELSE SplitFrom(s, i + 1, Append(word, s[i]))

Split(s) == SplitFrom(s, 1, <<>>)

RECURSIVE JoinSpace(_)
\* ' '.join(words)
JoinSpace(words) ==
    IF words = <<>> THEN <<>>
    ELSE IF Len(words) = 1 THEN words[1]
    ELSE words[1] \o <<" ">> \o JoinSpace(Tail(words))

\* ''.join(char for char in text if ord(char) >= 32 or char == '\n')
DropControl(s) == SelectSeq(s, LAMBDA ch : ~IsControl(ch) \/ ch = "\n")

RECURSIVE LStrip(_)
LStrip(s) ==
    IF s # <<>> /\ Head(s) \in Whitespace THEN LStrip(Tail(s)) ELSE s

RECURSIVE RStrip(_)
RStrip(s) ==
    IF s # <<>> /\ s[Len(s)] \in Whitespace
    THEN RStrip(SubSeq(s, 1, Len(s) - 1))
    ELSE s

\* str.strip()
Strip(s) == RStrip(LStrip(s))

\* EventModel._clean_text
CleanText(text) ==
    IF text = <<>> THEN text
    ELSE Strip(DropControl(JoinSpace(Split(text))))

-----------------------------------------------------------------------------
(* EventModel *)

Digits == <<"0","1","2","3","4","5","6","7","8","9">>

\* str(date.date()): the ISO calendar date, time of day dropped
DateIso(date) == <<"2","0","2","5","-","0","7","-","2">> \o <<Digits[date.day + 1]>>

\* hashlib.md5(id_string.encode()).hexdigest()[:12]
Md5Hex12(s) == <<"md5">> \o s

\* f"{self.name}|{self.date.date()}|{self.location}"
IdString(name, date, location) ==
    name \o <<"|">> \o DateIso(date) \o <<"|">> \o location

\* generate_id hashing the whole timestamp instead of the calendar date
GenerateIdWithTime(name, date, location) ==
    Md5Hex12(name \o <<"|">> \o DateIso(date)
             \o <<"T", Digits[(date.time % 10) + 1]>> \o <<"|">> \o location)

\* EventModel.generate_id
GenerateId(name, date, location) == Md5Hex12(IdString(name, date, location))

\* True when Python's `not x` holds of an Optional[str]
Falsy(x) == x = None \/ x = <<>>


IsLetter(ch) == \E i \in 1..26 : UpperChars[i] = ch \/ LowerChars[i] = ch
IsDigit(ch) == \E i \in 1..10 : Digits[i] = ch

\* \w of the re module, on the characters of the model
IsWordChar(ch) == IsLetter(ch) \/ IsDigit(ch) \/ ch = "_"

\* [A-Za-z0-9._%+-]
IsLocalChar(ch) == IsLetter(ch) \/ IsDigit(ch) \/ ch \in {".", "_", "%", "+", "-"}

\* [A-Za-z0-9.-]
IsDomainChar(ch) == IsLetter(ch) \/ IsDigit(ch) \/ ch \in {".", "-"}

\* [A-Z|a-z]
IsTldChar(ch) == IsLetter(ch) \/ ch = "|"

\* \b between positions i-1 and i of s
WordBoundary(s, i) ==
    LET before == i > 1 /\ i - 1 <= Len(s) /\ IsWordChar(s[i - 1])
        after == i >= 1 /\ i <= Len(s) /\ IsWordChar(s[i])
    IN  before # after

\* membership in the three character classes of email_pattern
InClass(class, ch) ==
    CASE class = "local" -> IsLocalChar(ch)
      [] class = "domain" -> IsDomainChar(ch)
      [] class = "tld" -> IsTldChar(ch)

\* the end of the maximal run of characters of a class that starts at i
\* (i - 1 when s[i] is not of the class)
RunEnd(s, i, class) ==
    LET stops == {j \in i..Len(s) : ~InClass(class, s[j])}
    IN  IF stops = {} THEN Len(s)
        ELSE (CHOOSE j \in stops : \A k \in stops : j <= k) - 1

\* The last position of the match of
\*   \b[A-Za-z0-9._%+-]+@[A-Za-z0-9.-]+\.[A-Z|a-z]{2,}\b
\* that starts at i, or 0 when none does.  The greedy domain takes the last
\* usable dot, the greedy top-level part the longest run ending at a \b.
EmailMatchEnd(s, i) ==
    IF ~WordBoundary(s, i) THEN 0
    ELSE
    LET at == RunEnd(s, i, "local") + 1
    IN  IF at = i \/ at > Len(s) \/ s[at] # "@" THEN 0
        ELSE
        LET domEnd == RunEnd(s, at + 1, "domain")
            TldEnd(dot) ==
                LET ends == {m \in (dot + 2)..RunEnd(s, dot + 1, "tld") :
                                WordBoundary(s, m + 1)}
                IN  IF ends = {} THEN 0
                    ELSE CHOOSE m \in ends : \A n \in ends : n <= m
            dots == {k \in (at + 2)..domEnd : s[k] = "." /\ TldEnd(k) # 0}
        IN  IF dots = {} THEN 0
            ELSE TldEnd(CHOOSE k \in dots : \A n \in dots : n <= k)

\* _extract_email returning the last match instead of the first
ExtractLastEmail(text) ==
    LET starts == {i \in 1..Len(text) : EmailMatchEnd(text, i) # 0}
    IN  IF starts = {} THEN None
        ELSE LET i == CHOOSE j \in starts : \A k \in starts : k <= j
             IN  SubSeq(text, i, EmailMatchEnd(text, i))

\* EventModel._extract_email: re.search, the leftmost match or None
ExtractEmail(text) ==
    LET starts == {i \in 1..Len(text) : EmailMatchEnd(text, i) # 0}
    IN  IF starts = {} THEN None
        ELSE LET i == CHOOSE j \in starts : \A k \in starts : j <= k
             IN  SubSeq(text, i, EmailMatchEnd(text, i))

\* EventModel.__init__ followed by __post_init__
EventModel(raw) ==
    LET name == CleanText(raw.name)
        location == CleanText(raw.location)
        description == IF ~Falsy(raw.description)
                       THEN CleanText(raw.description)
                       ELSE raw.description
        event_id == IF Falsy(raw.event_id)
                    THEN GenerateId(name, raw.date, location)
                    ELSE raw.event_id
        contact_email == IF Falsy(raw.contact_email) /\ ~Falsy(description)
                         THEN ExtractEmail(description)
                         ELSE raw.contact_email
    IN  [name |-> name,
         date |-> raw.date,
         location |-> location,
         source_url |-> raw.source_url,
         contact_email |-> contact_email,
         description |-> description,
         source |-> raw.source,
         scraped_at |-> raw.scraped_at,
         event_id |-> event_id]

RECURSIVE CountMatches(_, _, _)
\* sum(1 for i, char in enumerate(shorter) if i < len(longer) and char == longer[i])
CountMatches(shorter, longer, i) ==
    IF i > Len(shorter) THEN 0
    ELSE (IF i <= Len(longer) /\ shorter[i] = longer[i] THEN 1 ELSE 0)
         + CountMatches(shorter, longer, i + 1)

\* _string_similarity dividing by the length of the shorter string
StringSimilarityOverShorter(str1, str2) ==
    LET longer == IF Len(str1) > Len(str2) THEN str1 ELSE str2
        shorter == IF longer = str1 THEN str2 ELSE str1
    IN  IF longer = <<>> THEN <<1, 1>>
        ELSE <<CountMatches(shorter, longer, 1),
               IF shorter = <<>> THEN 1 ELSE Len(shorter)>>

\* _string_similarity dividing by the length of its first argument
StringSimilarityOverFirst(str1, str2) ==
    IF str1 = <<>> THEN <<1, 1>>
    ELSE <<CountMatches(str1, str2, 1), Len(str1)>>

\* EventModel._string_similarity as the fraction <<matches, len(longer)>>;
\* <<1, 1>> is the 1.0 returned for an empty `longer`
StringSimilarity(str1, str2) ==
    LET longer == IF Len(str1) > Len(str2) THEN str1 ELSE str2
        shorter == IF longer = str1 THEN str2 ELSE str1
    IN  IF longer = <<>> THEN <<1, 1>>
        ELSE <<CountMatches(shorter, longer, 1), Len(longer)>>

\* name_similarity >= 0.8
ReachesThreshold(sim) == 5 * sim[1] >= 4 * sim[2]

\* name_similarity > 0.8, on the fraction
ExceedsThreshold(sim) == 5 * sim[1] > 4 * sim[2]

\* EventModel.is_duplicate_of
IsDuplicateOf(self, other, fuzzy) ==
    IF self.event_id = other.event_id THEN TRUE
    ELSE IF ~fuzzy THEN FALSE
    ELSE IF self.date.day = other.date.day
            /\ ExceedsThreshold(StringSimilarity(Lower(self.name), Lower(other.name)))
         THEN TRUE
         ELSE FALSE

\* the digit a character stands for
DigitValue(ch) == (CHOOSE i \in 1..10 : Digits[i] = ch) - 1

\* datetime.isoformat(): 'YYYY-MM-DDTHH:MM:SS'
IsoFormat(dt) ==
    DateIso(dt) \o <<"T", Digits[(dt.time \div 10) + 1], Digits[(dt.time % 10) + 1]>>
                \o <<":","0","0",":","0","0">>

\* datetime.fromisoformat
FromIsoFormat(s) ==
    [day |-> DigitValue(s[10]),
     time |-> 10 * DigitValue(s[12]) + DigitValue(s[13])]

\* EventModel.to_dict
ToDict(self) ==
    [event_id |-> self.event_id,
     name |-> self.name,
     date |-> IsoFormat(self.date),
     location |-> self.location,
     source_url |-> self.source_url,
     contact_email |-> self.contact_email,
     description |-> self.description,
     source |-> self.source,
     scraped_at |-> IsoFormat(self.scraped_at)]

\* from_dict that does not hand the stored event_id to the constructor
FromDictNewId(data) ==
    EventModel([name |-> data.name,
                date |-> FromIsoFormat(data.date),
                location |-> data.location,
                source_url |-> data.source_url,
                contact_email |-> data.contact_email,
                description |-> data.description,
                source |-> data.source,
                scraped_at |-> FromIsoFormat(data.scraped_at),
                event_id |-> None])

\* EventModel.from_dict
FromDict(data) ==
    EventModel([name |-> data.name,
                date |-> FromIsoFormat(data.date),
                location |-> data.location,
                source_url |-> data.source_url,
                contact_email |-> data.contact_email,
                description |-> data.description,
                source |-> data.source,
                scraped_at |-> FromIsoFormat(data.scraped_at),
                event_id |-> data.event_id])

-----------------------------------------------------------------------------
(* EventCollection *)

\* the dict that __init__ creates before _rebuild_index fills it
EmptyIndex == [id \in {} |-> None]

\* EventCollection._rebuild_index: a later event replaces an earlier one
\* stored under the same event_id
RebuildIndex(evs) ==
    [id \in {evs[k].event_id : k \in DOMAIN evs} |->
        evs[CHOOSE k \in DOMAIN evs :
                /\ evs[k].event_id = id
                /\ \A j \in DOMAIN evs : evs[j].event_id = id => j <= k]]

\* EventCollection.__init__
NewCollection(evs) == [events |-> evs, index |-> RebuildIndex(evs)]

\* has_duplicate with the fuzzy scan stopping short of the newest member
HasDuplicateSkipsLast(c, event, fuzzy) ==
    IF event.event_id \in DOMAIN c.index THEN TRUE
    ELSE fuzzy /\ \E k \in 1..(Len(c.events) - 1) :
                     IsDuplicateOf(event, c.events[k], TRUE)

\* EventCollection.has_duplicate
HasDuplicate(c, event, fuzzy) ==
    IF event.event_id \in DOMAIN c.index THEN TRUE
    ELSE IF fuzzy /\ \E k \in DOMAIN c.events :
                        IsDuplicateOf(event, c.events[k], TRUE)
         THEN TRUE
         ELSE FALSE

\* add that looks the record up by event_id only
AddEventIdOnly(c, event, check_duplicates) ==
    IF check_duplicates /\ event.event_id \in DOMAIN c.index
    THEN [events |-> c.events, index |-> c.index, ret |-> FALSE]
    ELSE [events |-> Append(c.events, event),
          index |-> (event.event_id :> event) @@ c.index,
          ret |-> TRUE]

\* add that appends without registering the record in the map
AddEventUnindexed(c, event, check_duplicates) ==
    IF check_duplicates /\ HasDuplicate(c, event, TRUE)
    THEN [events |-> c.events, index |-> c.index, ret |-> FALSE]
    ELSE [events |-> Append(c.events, event), index |-> c.index, ret |-> TRUE]

\* EventCollection.add: the collection afterwards and the value returned
AddEvent(c, event, check_duplicates) ==
    IF check_duplicates /\ HasDuplicate(c, event, TRUE)
    THEN [events |-> c.events, index |-> c.index, ret |-> FALSE]
    ELSE [events |-> Append(c.events, event),
          index |-> (event.event_id :> event) @@ c.index,
          ret |-> TRUE]

RECURSIVE AddManyFrom(_, _, _, _, _)
\* the loop of EventCollection.add_many from position i on
AddManyFrom(c, batch, check_duplicates, i, added) ==
    IF i > Len(batch)
    THEN [events |-> c.events, index |-> c.index, ret |-> added]
    ELSE LET r == AddEvent(c, batch[i], check_duplicates)
         IN  AddManyFrom([events |-> r.events, index |-> r.index], batch,
                         check_duplicates, i + 1,
                         IF r.ret THEN added + 1 ELSE added)

\* add_many that does not pass check_duplicates on
AddManyUnchecked(c, batch, check_duplicates) == AddManyFrom(c, batch, FALSE, 1, 0)

\* add_many that walks the list from its end
AddManyLastFirst(c, batch, check_duplicates) ==
    AddManyFrom(c, [i \in 1..Len(batch) |-> batch[Len(batch) + 1 - i]],
                check_duplicates, 1, 0)

\* EventCollection.add_many
AddMany(c, batch, check_duplicates) == AddManyFrom(c, batch, check_duplicates, 1, 0)

RECURSIVE RemoveDuplicatesFrom(_, _, _, _, _)
\* the loop of EventCollection.remove_duplicates from position i on
RemoveDuplicatesFrom(evs, i, seen_ids, unique_events, removed) ==
    IF i > Len(evs)
    THEN [events |-> unique_events, index |-> RebuildIndex(unique_events),
          ret |-> removed]
    ELSE LET event == evs[i]
         IN  IF event.event_id \notin seen_ids
             THEN IF \E k \in DOMAIN unique_events :
                         IsDuplicateOf(event, unique_events[k], TRUE)
                  THEN RemoveDuplicatesFrom(evs, i + 1, seen_ids,
                                            unique_events, removed + 1)
                  ELSE RemoveDuplicatesFrom(evs, i + 1,
                                            seen_ids \cup {event.event_id},
                                            Append(unique_events, event), removed)
             ELSE RemoveDuplicatesFrom(evs, i + 1, seen_ids, unique_events,
                                       removed + 1)

\* remove_duplicates that drops repeated event_ids only
RemoveDuplicatesExactOnly(c) ==
    LET keep == {k \in DOMAIN c.events :
                    \A j \in 1..(k - 1) : c.events[j].event_id # c.events[k].event_id}
        kept == SelectSeq([k \in DOMAIN c.events |-> <<k, c.events[k]>>],
                          LAMBDA p : p[1] \in keep)
        unique_events == [k \in DOMAIN kept |-> kept[k][2]]
    IN  [events |-> unique_events, index |-> RebuildIndex(unique_events),
         ret |-> Len(c.events) - Len(unique_events)]

\* remove_duplicates that counts the repeated event_ids only
RemoveDuplicatesMiscount(c) ==
    LET r == RemoveDuplicatesFrom(c.events, 1, {}, <<>>, 0)
    IN  [r EXCEPT !.ret = Len(c.events) - Cardinality(DOMAIN RebuildIndex(c.events))]

\* remove_duplicates that compares each record with every earlier record of
\* the list, kept or not
RemoveDuplicatesAgainstAll(c) ==
    LET keep == {k \in DOMAIN c.events :
                    \A j \in 1..(k - 1) :
                        /\ c.events[j].event_id # c.events[k].event_id
                        /\ ~IsDuplicateOf(c.events[k], c.events[j], TRUE)}
        kept == SelectSeq([k \in DOMAIN c.events |-> <<k, c.events[k]>>],
                          LAMBDA p : p[1] \in keep)
        unique_events == [k \in DOMAIN kept |-> kept[k][2]]
    IN  [events |-> unique_events, index |-> RebuildIndex(unique_events),
         ret |-> Len(c.events) - Len(unique_events)]

\* remove_duplicates that leaves the id map as it was
RemoveDuplicatesStaleIndex(c) ==
    [RemoveDuplicatesFrom(c.events, 1, {}, <<>>, 0) EXCEPT !.index = c.index]

\* EventCollection.remove_duplicates
RemoveDuplicates(c) == RemoveDuplicatesFrom(c.events, 1, {}, <<>>, 0)

\* datetime comparison: d1 < d2
DateBefore(d1, d2) == d1.day < d2.day \/ (d1.day = d2.day /\ d1.time < d2.time)

RECURSIVE InsertByDate(_, _, _)
\* one step of a stable sort: event goes behind every element it does not
\* have to precede
InsertByDate(sorted, event, reverse) ==
    IF sorted = <<>> THEN <<event>>
    ELSE LET last == sorted[Len(sorted)]
             precedes == IF reverse THEN DateBefore(last.date, event.date)
                         ELSE DateBefore(event.date, last.date)
         IN  IF precedes
             THEN Append(InsertByDate(SubSeq(sorted, 1, Len(sorted) - 1),
                                      event, reverse), last)
             ELSE Append(sorted, event)

RECURSIVE SortFrom(_, _, _, _)
SortFrom(evs, i, sorted, reverse) ==
    IF i > Len(evs) THEN sorted
    ELSE SortFrom(evs, i + 1, InsertByDate(sorted, evs[i], reverse), reverse)

\* sort_by_date that gets the descending order by reversing the ascending one
SortByDateReversing(c, reverse) ==
    LET ascending == SortFrom(c.events, 1, <<>>, FALSE)
        n == Len(ascending)
    IN  [events |-> IF reverse THEN [k \in 1..n |-> ascending[n + 1 - k]]
                    ELSE ascending,
         index |-> c.index, ret |-> None]

\* EventCollection.sort_by_date: list.sort(key=date, reverse=reverse), stable
SortByDate(c, reverse) ==
    [events |-> SortFrom(c.events, 1, <<>>, reverse), index |-> c.index,
     ret |-> None]

\* get_by_date_range with the end of the range excluded
GetByDateRangeEndExcluded(c, start_date, end_date) ==
    LET InRange(event) ==
            ~DateBefore(event.date, start_date) /\ DateBefore(event.date, end_date)
    IN  SelectSeq(c.events, InRange)

\* EventCollection.get_by_date_range:
\* [event for event in self.events if start_date <= event.date <= end_date]
GetByDateRange(c, start_date, end_date) ==
    LET InRange(event) ==
            /\ start_date = event.date \/ DateBefore(start_date, event.date)
            /\ event.date = end_date \/ DateBefore(event.date, end_date)
    IN  SelectSeq(c.events, InRange)

\* get_upcoming without the events dated exactly from_date
GetUpcomingAfter(c, from_date) ==
    LET Upcoming(event) == DateBefore(from_date, event.date)
    IN  SelectSeq(c.events, Upcoming)

\* EventCollection.get_upcoming, from_date being the argument or, without
\* one, datetime.now(): [event for event in self.events if event.date >= from_date]
GetUpcoming(c, from_date) ==
    LET Upcoming(event) ==
            event.date = from_date \/ DateBefore(from_date, event.date)
    IN  SelectSeq(c.events, Upcoming)

\* EventCollection.get_by_id: self._id_index.get(event_id)
GetById(c, event_id) ==
    IF event_id \in DOMAIN c.index THEN c.index[event_id] ELSE None

\* EventCollection.to_list
ToList(c) == [k \in DOMAIN c.events |-> ToDict(c.events[k])]

\* JSONStorage.load on the 'events' list that JSONStorage.save wrote
LoadEvents(events_data) ==
    LET loaded == [k \in DOMAIN events_data |-> FromDict(events_data[k])]
        c == NewCollection(loaded)
    IN  [events |-> c.events, index |-> c.index, ret |-> None]

-----------------------------------------------------------------------------
(* OutreachGenerator and OutreachSender *)

\* source_url values that contain 'contact', and the host that
\* https?://(?:www\.)?([^/]+) finds in them
ContactFormUrl == "https://www.fest.org/contact"
ContactFormHost == <<"f","e","s","t",".","o","r","g">>

\* OutreachGenerator._extract_email_from_event: the first address of the
\* description, else info@<host> for a contact-form URL, else None
ExtractEmailFromEvent(event) ==
    IF ~Falsy(event.description) /\ ExtractEmail(event.description) # None
    THEN ExtractEmail(event.description)
    ELSE IF event.source_url = ContactFormUrl
         THEN <<"i","n","f","o","@">> \o ContactFormHost
         ELSE None

\* the 'to' of OutreachGenerator.generate_outreach_email, None when the
\* method returns None
OrganizerEmail(event) ==
    IF ~Falsy(event.contact_email) THEN event.contact_email
    ELSE LET found == ExtractEmailFromEvent(event)
         IN  IF Falsy(found) THEN None ELSE found

\* OutreachSender._load_sent_history
LoadSentHistory(log) == {log.sent_events[k] : k \in DOMAIN log.sent_events}

\* OutreachSender._record_sent
RecordSent(log, event_id, recipient, sent_at) ==
    [sent_events |-> IF event_id \in LoadSentHistory(log)
                     THEN log.sent_events
                     ELSE Append(log.sent_events, event_id),
     details |-> Append(log.details,
                        [event_id |-> event_id, recipient |-> recipient,
                         sent_at |-> sent_at])]

\* the email EmailSender.send_outreach_email hands to the mail server
OutreachEmail(event, to) ==
    [kind |-> "outreach", to |-> to,
     event_id |-> event.event_id, event_name |-> event.name]

\* one pass of the loop of send_outreach_for_events over an event that is not
\* in the history; to is email_data['to'], None when generate_outreach_email
\* returned None
OutreachTo(acc, event, to, test_mode, delivered, sent_at) ==
    IF to = None
    THEN [acc EXCEPT !.failed = Append(@, event.event_id)]
    ELSE IF test_mode
    THEN [acc EXCEPT !.sent = Append(@, event.event_id)]
    ELSE IF delivered
    THEN [sent |-> Append(acc.sent, event.event_id),
          failed |-> acc.failed,
          log |-> RecordSent(acc.log, event.event_id, to, sent_at),
          box |-> Append(acc.box, OutreachEmail(event, to))]
    ELSE [acc EXCEPT !.failed = Append(@, event.event_id)]

\* one pass of the loop of send_outreach_for_events over evs[i]; delivers[i]
\* is what send_outreach_email returns for it
OutreachStep(acc, event, history, test_mode, delivered, sent_at) ==
    IF event.event_id \in history THEN acc
    ELSE OutreachTo(acc, event, OrganizerEmail(event), test_mode, delivered,
                    sent_at)

RECURSIVE OutreachFrom(_, _, _, _, _, _, _)
OutreachFrom(acc, evs, i, history, test_mode, delivers, sent_at) ==
    IF i > Len(evs) THEN acc
    ELSE OutreachFrom(OutreachStep(acc, evs[i], history, test_mode,
                                   delivers[i], sent_at),
                      evs, i + 1, history, test_mode, delivers, sent_at)

\* send_outreach_for_events that does not consult the sent history
SendOutreachNoHistory(log, box, evs, test_mode, delivers, sent_at) ==
    OutreachFrom([sent |-> <<>>, failed |-> <<>>, log |-> log, box |-> box],
                 evs, 1, {}, test_mode, delivers, sent_at)

\* OutreachSender.send_outreach_for_events: sent_history is loaded once,
\* before the loop
SendOutreachForEvents(log, box, evs, test_mode, delivers, sent_at) ==
    OutreachFrom([sent |-> <<>>, failed |-> <<>>, log |-> log, box |-> box],
                 evs, 1, LoadSentHistory(log), test_mode, delivers, sent_at)

-----------------------------------------------------------------------------
(* DigestTracker *)

\* DigestTracker._load_tracking_data: what json.load reads from the file, the
\* empty tracking data when the file does not exist
LoadTrackingData(file) == file

\* mark_events_sent that forgets the events marked before
MarkEventsSentAfresh(data, event_ids, digest_date) ==
    LET date_str == IsoFormat(digest_date)
    IN  [sent_events |-> [id \in {event_ids[k] : k \in DOMAIN event_ids} |-> date_str],
         digest_history |->
             Append(data.digest_history,
                    [date |-> date_str, event_count |-> Len(event_ids),
                     event_ids |-> event_ids])]

\* DigestTracker.mark_events_sent, before save_tracking_data
MarkEventsSent(data, event_ids, digest_date) ==
    LET date_str == IsoFormat(digest_date)
        marked == {event_ids[k] : k \in DOMAIN event_ids}
    IN  [sent_events |->
             [id \in DOMAIN data.sent_events \cup marked |->
                 IF id \in marked THEN date_str ELSE data.sent_events[id]],
         digest_history |->
             Append(data.digest_history,
                    [date |-> date_str, event_count |-> Len(event_ids),
                     event_ids |-> event_ids])]

RECURSIVE FilterNewFrom(_, _, _, _)
FilterNewFrom(data, evs, i, new_events) ==
    IF i > Len(evs) THEN new_events
    ELSE LET r == IF evs[i].event_id \notin DOMAIN data.sent_events
                  THEN AddEvent(new_events, evs[i], FALSE)
                  ELSE new_events
         IN  FilterNewFrom(data, evs, i + 1, [events |-> r.events, index |-> r.index])

\* DigestTracker.filter_new_events: the EventCollection it returns
FilterNewEvents(data, evs) == FilterNewFrom(data, evs, 1, NewCollection(<<>>))

\* [event.event_id for event in new_events]
EventIds(evs) == [k \in DOMAIN evs |-> evs[k].event_id]

\* DigestTracker.get_last_digest_date
GetLastDigestDate(data) ==
    IF data.digest_history # <<>>
    THEN FromIsoFormat(data.digest_history[Len(data.digest_history)].date)
    ELSE None

-----------------------------------------------------------------------------
(* DigestGenerator, EmailSender.send_digest and ReplyParser *)

\* the max_events default of EmailSender.send_digest
DefaultMaxEvents == 20

\* DigestGenerator.generate_digest: the events the digest lists, in the order
\* _generate_text_body numbers them from 1; max_events 0 is falsy, no cap
GenerateDigest(c, digest_date, max_events) ==
    LET upcoming_events == SortFrom(GetUpcoming(c, digest_date), 1, <<>>, FALSE)
    IN  IF max_events # 0 /\ Len(upcoming_events) > max_events
        THEN SubSeq(upcoming_events, 1, max_events)
        ELSE upcoming_events

\* the digest handed to the mail client, as the list of events it shows
DigestEmail(listed, digest_date) ==
    [kind |-> "digest", listed |-> listed, date |-> digest_date]

\* EmailSender.send_digest from `if len(new_events) == 0` on: data is the
\* tracking data of the tracker it created, new_events what the tracker's
\* filter_new_events returned
SendNewEvents(data, box, new_events, max_events, test_mode, delivered, at) ==
    IF Len(new_events.events) = 0
    THEN [ret |-> FALSE, tracking |-> data, box |-> box]
    ELSE IF test_mode
    THEN [ret |-> TRUE, tracking |-> data, box |-> box]
    ELSE IF delivered
    THEN [ret |-> TRUE,
          tracking |-> MarkEventsSent(data, EventIds(new_events.events), at),
          box |-> Append(box, DigestEmail(GenerateDigest(new_events, at, max_events),
                                          at))]
    ELSE [ret |-> FALSE, tracking |-> data, box |-> box]

\* EmailSender.send_digest on the tracking file, the mail server's inbox and
\* the collection main.py loaded; delivered is what client.send_email returns
\* and at is datetime.now()
SendDigest(file, box, c, max_events, test_mode, delivered, at) ==
    SendNewEvents(LoadTrackingData(file), box,
                  FilterNewEvents(LoadTrackingData(file), c.events),
                  max_events, test_mode, delivered, at)

RECURSIVE SelectFrom(_, _, _, _)
\* the loop of ReplyParser.get_selected_events over event_numbers[i..]
SelectFrom(upcoming, event_numbers, i, selected) ==
    IF i > Len(event_numbers) THEN selected
    ELSE LET num == event_numbers[i]
             r == IF 1 <= num /\ num <= Len(upcoming)
                  THEN AddEvent(selected, upcoming[num], FALSE)
                  ELSE selected
         IN  SelectFrom(upcoming, event_numbers, i + 1,
                        [events |-> r.events, index |-> r.index])

\* ReplyParser.get_selected_events without a digest_date argument, on a parser
\* created over the tracking file and the latest stored collection c; at is
\* the datetime.now() that get_upcoming falls back to
GetSelectedEvents(file, c, event_numbers, at) ==
    LET data == LoadTrackingData(file)
        from_date == IF data.digest_history = <<>> THEN at
                     ELSE GetLastDigestDate(data)
        upcoming == SortFrom(GetUpcoming(c, from_date), 1, <<>>, FALSE)
    IN  SelectFrom(upcoming, event_numbers, 1, NewCollection(<<>>))

-----------------------------------------------------------------------------
(* Inputs *)

Days == {0, 1}

\* the constructor arguments that do not enter the identifier
AuxA ==
    [time |-> 10, source_url |-> "https://example1.com", contact_email |-> None,
     description |-> None, source |-> "eventbrite",
     scraped_at |-> [day |-> 2, time |-> 8]]
AuxB ==
    [time |-> 19, source_url |-> "https://example2.com", contact_email |-> None,
     description |-> <<"A","s","k"," "," ","a","@","b",".","c","o">>,
     source |-> "nycforfree", scraped_at |-> [day |-> 3, time |-> 21]]

Raw(name, day, location, aux, event_id) ==
    [name |-> name,
     date |-> [day |-> day, time |-> aux.time],
     location |-> location,
     source_url |-> aux.source_url,
     contact_email |-> aux.contact_email,
     description |-> aux.description,
     source |-> aux.source,
     scraped_at |-> aux.scraped_at,
     event_id |-> event_id]

Event1 == <<"E","v","e","n","t"," ","1">>
Event2 == <<"E","v","e","n","t"," ","2">>
Evant1 == <<"E","v","a","n","t"," ","1">>
Nyc == <<"N","Y","C">>
Day0Iso == DateIso([day |-> 0])

RecordNames ==
    { Event1, Event2, Evant1,
      <<" ","E","v","e","n","t"," "," ","1","\n">>,
      <<"E","V","E","N","T"," ","1">>,
      <<"E","v","e","n","t"," ","1","2">>,
      <<"G","a","l","a","1">>,
      <<"G","a","l","a","2">>,
      <<"A">>,
      <<"A","|">> \o Day0Iso,
      <<>> }

RecordLocations ==
    { Nyc, <<"N","Y","C","\t","\t">>, <<"B">>, Day0Iso \o <<"|","B">> }

NycFoodFestival ==
    <<"N","Y","C"," ","F","o","o","d"," ","F","e","s","t","i","v","a","l">>
NycFoodFest == <<"N","Y","C"," ","F","o","o","d"," ","F","e","s","t">>
Brooklyn == <<"B","r","o","o","k","l","y","n">>

SuppliedId == <<"e","v","t","0","0","1">>

\* the argument tuples the two compared records are constructed from
RecordInputs ==
    {Raw(n, d, l, a, None) :
        n \in RecordNames, d \in Days, l \in RecordLocations, a \in {AuxA, AuxB}}
    \cup {Raw(n, d, Nyc, AuxA, SuppliedId) : n \in {Event1, Event2}, d \in Days}
    \cup {Raw(n, d, Brooklyn, AuxA, None) :
            n \in {NycFoodFestival, NycFoodFest}, d \in Days}

\* the events handed to the collection
Universe ==
    { EventModel(Raw(Evant1, 0, Nyc, AuxA, None)),
      EventModel(Raw(Event1, 0, Nyc, AuxA, None)),
      EventModel(Raw(Event1, 0, Nyc, AuxB, None)),
      EventModel(Raw(Event2, 0, Nyc, AuxA, None)),
      EventModel(Raw(Event1, 1, Nyc, AuxA, None)),
      EventModel(Raw(Event2, 1, Nyc, AuxB, SuppliedId)) }

RECURSIVE SeqsUpTo(_, _)
\* the sequences over S of length at most n
SeqsUpTo(S, n) ==
    IF n = 0 THEN {<<>>}
    ELSE LET shorter == SeqsUpTo(S, n - 1)
         IN  shorter \cup {Append(q, x) : q \in shorter, x \in S}

Batches == SeqsUpTo(Universe, MaxBatch)

InitialLists == SeqsUpTo(Universe, MaxInitial)

-----------------------------------------------------------------------------
(* The collection as a state machine *)

Coll == [events |-> events, index |-> idIndex]

NoRecords == rawA = None /\ rawB = None /\ evA = None /\ evB = None

\* collection = EventCollection(events)
Init ==
    /\ \E evs \in InitialLists :
          /\ events = NewCollection(evs).events
          /\ idIndex = NewCollection(evs).index
    /\ op = [name |-> "init"]
    /\ ret = None
    /\ NoMail
    /\ NoRecords

Becomes(r) == events' = r.events /\ idIndex' = r.index /\ ret' = r.ret

\* collection.add(event, check_duplicates)
Add(event, check_duplicates) ==
    LET r == AddEvent(Coll, event, check_duplicates)
    IN  /\ Len(r.events) <= MaxEvents
        /\ Becomes(r)
        /\ op' = [name |-> "add", event |-> event,
                  check_duplicates |-> check_duplicates]
        /\ UNCHANGED <<rawA, rawB, evA, evB, mailVars>>

\* The lists add_many is called with: one that fits the explored length
\* whatever is accepted, or the list of the previous add_many once more
\* (JSONStorage.load_multiple run again over the same files)
Offered(batch, check_duplicates) ==
    \/ Len(events) + Len(batch) <= MaxEvents
    \/ /\ op.name = "add_many"
       /\ op.batch = batch
       /\ op.check_duplicates = check_duplicates

\* collection.add_many(batch, check_duplicates)
AddManyCall(batch, check_duplicates) ==
    LET r == AddMany(Coll, batch, check_duplicates)
    IN  /\ Offered(batch, check_duplicates)
        /\ Len(r.events) <= MaxEvents
        /\ Becomes(r)
        /\ op' = [name |-> "add_many", batch |-> batch,
                  check_duplicates |-> check_duplicates]
        /\ UNCHANGED <<rawA, rawB, evA, evB, mailVars>>

\* collection.remove_duplicates()
RemoveDuplicatesCall ==
    /\ Becomes(RemoveDuplicates(Coll))
    /\ op' = [name |-> "remove_duplicates"]
    /\ UNCHANGED <<rawA, rawB, evA, evB, mailVars>>

\* collection.sort_by_date(reverse)
SortByDateCall(reverse) ==
    /\ Becomes(SortByDate(Coll, reverse))
    /\ op' = [name |-> "sort_by_date", reverse |-> reverse]
    /\ UNCHANGED <<rawA, rawB, evA, evB, mailVars>>

\* the ids asked for: those of the events handed to the collection
LookupIds == {event.event_id : event \in Universe}

\* collection.get_by_id(event_id)
GetByIdCall(event_id) ==
    /\ ret' = GetById(Coll, event_id)
    /\ op' = [name |-> "get_by_id", event_id |-> event_id]
    /\ UNCHANGED <<events, idIndex, rawA, rawB, evA, evB, mailVars>>

\* storage.save(collection, filepath); collection = storage.load(filepath)
SaveAndLoad ==
    /\ Becomes(LoadEvents(ToList(Coll)))
    /\ op' = [name |-> "load"]
    /\ UNCHANGED <<rawA, rawB, evA, evB, mailVars>>

Next ==
    \/ \E event \in Universe, check \in BOOLEAN : Add(event, check)
    \/ \E batch \in Batches, check \in BOOLEAN : AddManyCall(batch, check)
    \/ RemoveDuplicatesCall
    \/ \E reverse \in BOOLEAN : SortByDateCall(reverse)
    \/ \E event_id \in LookupIds : GetByIdCall(event_id)
    \/ SaveAndLoad

Spec == Init /\ [][Next]_vars

\* A collection that starts empty and only ever receives checked additions
\* (JSONStorage.load_multiple, the scraping loop of main.py)
InitEmpty ==
    /\ events = NewCollection(<<>>).events
    /\ idIndex = NewCollection(<<>>).index
    /\ op = [name |-> "init"]
    /\ ret = None
    /\ NoMail
    /\ NoRecords

NextChecked ==
    \/ \E event \in Universe : Add(event, TRUE)
    \/ \E batch \in Batches : AddManyCall(batch, TRUE)

SpecChecked == InitEmpty /\ [][NextChecked]_vars

-----------------------------------------------------------------------------
(* Two records, constructed and compared *)

InitRecords ==
    /\ rawA \in RecordInputs
    /\ rawB \in RecordInputs
    /\ evA = None
    /\ evB = None
    /\ events = <<>>
    /\ idIndex = EmptyIndex
    /\ op = [name |-> "init"]
    /\ ret = None
    /\ NoMail

\* evA = EventModel(**rawA); evB = EventModel(**rawB)
Construct ==
    /\ op.name = "init"
    /\ evA' = EventModel(rawA)
    /\ evB' = EventModel(rawB)
    /\ op' = [name |-> "EventModel"]
    /\ UNCHANGED <<events, idIndex, ret, rawA, rawB, mailVars>>

\* evA.is_duplicate_of(evB, fuzzy)
IsDuplicateOfCall(fuzzy) ==
    /\ op.name # "init"
    /\ ret' = IsDuplicateOf(evA, evB, fuzzy)
    /\ op' = [name |-> "is_duplicate_of", fuzzy |-> fuzzy]
    /\ UNCHANGED <<events, idIndex, rawA, rawB, evA, evB, mailVars>>

\* evA._string_similarity(evA.name, evB.name)
StringSimilarityCall ==
    /\ op.name # "init"
    /\ ret' = StringSimilarity(evA.name, evB.name)
    /\ op' = [name |-> "_string_similarity"]
    /\ UNCHANGED <<events, idIndex, rawA, rawB, evA, evB, mailVars>>

NextRecords ==
    \/ Construct
    \/ \E fuzzy \in BOOLEAN : IsDuplicateOfCall(fuzzy)
    \/ StringSimilarityCall

SpecRecords == InitRecords /\ [][NextRecords]_vars

-----------------------------------------------------------------------------
(* One record, constructed from arbitrary text *)

\* a letter, a blank, a newline and a control character that is no whitespace
TextAlphabet == {"a", " ", "\n", CtrlChar}

Texts == SeqsUpTo(TextAlphabet, MaxTextLen)

\* description arguments with and without addresses
Descriptions ==
    { None, <<>>, <<" ">>,
      <<"c","a","l","l"," ","u","s">>,
      AuxB.description,
      <<"x","@","y",".","i","o",","," ","a","@","b",".","c","o">>,
      <<"m","e","@","x",".","y"," ","z","@","w",".","o","r","g">>,
      <<"a","@","b">>,
      <<"\t","a","@","b",".","c","o","\n">> }

\* contact_email arguments: absent, empty, supplied
ContactEmails == {None, <<>>, <<"c","@","d",".","e","u">>}

TextAux(description, contact_email) ==
    [AuxA EXCEPT !.description = description, !.contact_email = contact_email]

\* the argument tuples of the one record
ConstructInputs ==
    {Raw(n, 0, Nyc, AuxA, None) : n \in Texts}
    \cup {Raw(Event1, 0, l, AuxA, None) : l \in Texts}
    \cup {Raw(Event1, 0, Nyc, TextAux(d, None), None) : d \in Texts}
    \cup {Raw(Event1, 0, Nyc, TextAux(d, c), None) :
            d \in Descriptions, c \in ContactEmails}

InitConstruct ==
    /\ rawA \in ConstructInputs
    /\ rawB = None
    /\ evA = None
    /\ evB = None
    /\ events = <<>>
    /\ idIndex = EmptyIndex
    /\ op = [name |-> "init"]
    /\ ret = None
    /\ NoMail

\* evA = EventModel(**rawA)
ConstructOne ==
    /\ op.name = "init"
    /\ evA' = EventModel(rawA)
    /\ op' = [name |-> "EventModel"]
    /\ UNCHANGED <<events, idIndex, ret, rawA, rawB, evB, mailVars>>

TextFields == {"name", "location", "description"}

\* evA._clean_text(evA.<field>) on a field that holds text
CleanTextCall(field) ==
    /\ op.name # "init"
    /\ evA[field] # None
    /\ ret' = CleanText(evA[field])
    /\ op' = [name |-> "_clean_text", field |-> field]
    /\ UNCHANGED <<events, idIndex, rawA, rawB, evA, evB, mailVars>>

\* EventModel.from_dict(evA.to_dict())
RoundTripCall ==
    /\ op.name # "init"
    /\ ret' = FromDict(ToDict(evA))
    /\ op' = [name |-> "from_dict"]
    /\ UNCHANGED <<events, idIndex, rawA, rawB, evA, evB, mailVars>>

NextConstruct ==
    \/ ConstructOne
    \/ \E field \in TextFields : CleanTextCall(field)
    \/ RoundTripCall

SpecConstruct == InitConstruct /\ [][NextConstruct]_vars

-----------------------------------------------------------------------------
(* Date queries on a collection *)

QueryDays == 0..4

\* one event on each of five consecutive days at the same time of day
QueryUniverse ==
    {EventModel(Raw(<<"E","v","e","n","t"," ",Digits[d + 1]>>, d, Nyc, AuxA, None)) :
        d \in QueryDays}

\* the datetimes handed to the queries: the dates of the events, and a later
\* time on the fourth day
QueryDates ==
    {[day |-> d, time |-> AuxA.time] : d \in QueryDays}
    \cup {[day |-> 3, time |-> AuxB.time]}

RECURSIVE DistinctSeqsUpTo(_, _)
\* the sequences of different elements of S of length at most n
DistinctSeqsUpTo(S, n) ==
    IF n = 0 THEN {<<>>}
    ELSE LET shorter == DistinctSeqsUpTo(S, n - 1)
         IN  shorter \cup
             UNION {{Append(q, x) : x \in S \ {q[k] : k \in DOMAIN q}} :
                        q \in shorter}

\* collection = EventCollection(events)
InitQueries ==
    /\ \E evs \in DistinctSeqsUpTo(QueryUniverse, MaxQueryLen) :
          /\ events = NewCollection(evs).events
          /\ idIndex = NewCollection(evs).index
    /\ op = [name |-> "init"]
    /\ ret = None
    /\ NoMail
    /\ NoRecords

\* collection.get_by_date_range(start_date, end_date)
GetByDateRangeCall(start_date, end_date) ==
    /\ ret' = GetByDateRange(Coll, start_date, end_date)
    /\ op' = [name |-> "get_by_date_range", start_date |-> start_date,
              end_date |-> end_date]
    /\ UNCHANGED <<events, idIndex, rawA, rawB, evA, evB, mailVars>>

\* collection.get_upcoming(from_date), or collection.get_upcoming() at the
\* time from_date
GetUpcomingCall(from_date) ==
    /\ ret' = GetUpcoming(Coll, from_date)
    /\ op' = [name |-> "get_upcoming", from_date |-> from_date]
    /\ UNCHANGED <<events, idIndex, rawA, rawB, evA, evB, mailVars>>

NextQueries ==
    \/ \E start_date, end_date \in QueryDates :
          GetByDateRangeCall(start_date, end_date)
    \/ \E from_date \in QueryDates : GetUpcomingCall(from_date)

SpecQueries == InitQueries /\ [][NextQueries]_vars

-----------------------------------------------------------------------------
(* Outreach to the organizers of selected events *)

\* an event whose organizer is reached through a contact form
AuxC ==
    [time |-> 10, source_url |-> ContactFormUrl, contact_email |-> None,
     description |-> None, source |-> "eventbrite",
     scraped_at |-> [day |-> 2, time |-> 8]]

\* selected events: without any address, with an address in the description
\* (and the event_id of the first), with a contact form
OutreachUniverse ==
    { EventModel(Raw(Event1, 0, Nyc, AuxA, None)),
      EventModel(Raw(Event1, 0, Nyc, AuxB, None)),
      EventModel(Raw(Event2, 0, Nyc, AuxC, None)) }

OutreachLists == SeqsUpTo(OutreachUniverse, MaxOutreach)

InitOutreach ==
    /\ events = <<>>
    /\ idIndex = EmptyIndex
    /\ op = [name |-> "init"]
    /\ ret = None
    /\ NoRecords
    /\ NoMail

\* the log file, the mail server's inbox and the returned dict after a call
\* that ended as r
OutreachBecomes(r) ==
    /\ Len(r.box) <= MaxOutbox
    /\ sentLog' = r.log
    /\ outbox' = r.box
    /\ ret' = [sent |-> r.sent, failed |-> r.failed]

\* sender.send_outreach_for_events(evs, test_mode); delivers[k] is whether
\* the mail server accepts the email for evs[k]
SendOutreachCall(evs, test_mode, delivers) ==
    /\ OutreachBecomes(SendOutreachForEvents(sentLog, outbox, evs, test_mode,
                                             delivers, IsoFormat(now)))
    /\ op' = [name |-> "send_outreach_for_events", events |-> evs,
              test_mode |-> test_mode]
    /\ UNCHANGED <<events, idIndex, rawA, rawB, evA, evB, tracking, tracker, now>>

NextOutreach ==
    \E evs \in OutreachLists, test_mode \in BOOLEAN :
       \E delivers \in [DOMAIN evs -> BOOLEAN] :
          SendOutreachCall(evs, test_mode, delivers)

SpecOutreach == InitOutreach /\ [][NextOutreach]_vars

-----------------------------------------------------------------------------
(* A DigestTracker and its tracking file *)

\* two events under one event_id, one under a supplied event_id
TrackedUniverse ==
    { EventModel(Raw(Event1, 0, Nyc, AuxA, None)),
      EventModel(Raw(Event1, 0, Nyc, AuxB, None)),
      EventModel(Raw(Event2, 1, Nyc, AuxB, SuppliedId)) }

TrackedLists == SeqsUpTo(TrackedUniverse, MaxTracked)

InitTracker ==
    /\ events = <<>>
    /\ idIndex = EmptyIndex
    /\ op = [name |-> "init"]
    /\ ret = None
    /\ NoRecords
    /\ NoMail

\* tracker = DigestTracker(tracking_file)
NewTracker ==
    /\ tracker' = LoadTrackingData(tracking)
    /\ op' = [name |-> "DigestTracker"]
    /\ ret' = None
    /\ UNCHANGED <<events, idIndex, rawA, rawB, evA, evB, tracking, sentLog, outbox, now>>

\* tracker.mark_events_sent(event_ids, digest_date), which ends with
\* save_tracking_data()
MarkEventsSentCall(event_ids) ==
    /\ Len(tracker.digest_history) < MaxDigests
    /\ tracker' = MarkEventsSent(tracker, event_ids, now)
    /\ tracking' = tracker'
    /\ op' = [name |-> "mark_events_sent", event_ids |-> event_ids]
    /\ ret' = None
    /\ UNCHANGED <<events, idIndex, rawA, rawB, evA, evB, sentLog, outbox, now>>

\* tracker.filter_new_events(EventCollection(evs)); ret is the event list of
\* the collection it returns
FilterNewEventsCall(evs) ==
    /\ ret' = FilterNewEvents(tracker, evs).events
    /\ op' = [name |-> "filter_new_events", events |-> evs]
    /\ UNCHANGED <<events, idIndex, rawA, rawB, evA, evB, mailVars>>

NextTracker ==
    \/ NewTracker
    \/ \E evs \in TrackedLists : MarkEventsSentCall(EventIds(evs))
    \/ \E evs \in TrackedLists : FilterNewEventsCall(evs)

SpecTracker == InitTracker /\ [][NextTracker]_vars

-----------------------------------------------------------------------------
(* Scraping, digests and replies: the commands of main.py *)

\* one event on each of three consecutive days, the first of them tomorrow
DigestUniverse ==
    {EventModel(Raw(<<"E","v","e","n","t"," ",Digits[d + 1]>>, d, Nyc, AuxA, None)) :
        d \in 1..3}

\* what the scrapers find in one run
ScrapedLists == DistinctSeqsUpTo(DigestUniverse, MaxScraped)

\* the max_events arguments: a cap of one event and the default
MaxEventsChoices == {1, DefaultMaxEvents}

\* the numbers of a reply: each single number, 4 being beyond any list, and
\* two numbers in either order
NumberLists == {<<n>> : n \in 1..4} \cup {<<1, 2>>, <<2, 1>>}

\* no events file, no tracking file, no email sent
InitDigest ==
    /\ events = <<>>
    /\ idIndex = EmptyIndex
    /\ op = [name |-> "init"]
    /\ ret = None
    /\ NoMail
    /\ NoRecords

\* storage_manager.save_events(collection): c is the latest events file
Saved(c) == events' = c.events /\ idIndex' = c.index

\* the tracking file, the mail server's inbox and the returned value after a
\* send_digest that ended as r
DigestBecomes(r) ==
    /\ tracking' = r.tracking
    /\ tracker' = r.tracking
    /\ outbox' = r.box
    /\ ret' = r.ret

\* main.scrape: the scraped events are added to a new collection with the
\* duplicate check, duplicates are removed, the collection is sorted by date
\* and saved as the latest events file
Scrape(scraped) ==
    /\ Saved(SortByDate(RemoveDuplicates(AddMany(NewCollection(<<>>), scraped, TRUE)),
                        FALSE))
    /\ op' = [name |-> "scrape"]
    /\ ret' = None
    /\ UNCHANGED <<rawA, rawB, evA, evB, mailVars>>

\* a day passes
Tick ==
    /\ now.day < MaxDay
    /\ now' = [now EXCEPT !.day = @ + 1]
    /\ op' = [name |-> "tick"]
    /\ ret' = None
    /\ UNCHANGED <<events, idIndex, rawA, rawB, evA, evB, tracking, tracker,
                   sentLog, outbox>>

\* main.send_digest: EmailSender().send_digest(load_latest(), max_events,
\* test_mode); the tracker is the one send_digest creates
SendDigestCall(max_events, test_mode, delivered) ==
    /\ Len(tracking.digest_history) < MaxDigests
    /\ DigestBecomes(SendDigest(tracking, outbox, LoadEvents(ToList(Coll)),
                                max_events, test_mode, delivered, now))
    /\ op' = [name |-> "send_digest", max_events |-> max_events,
              test_mode |-> test_mode, delivered |-> delivered]
    /\ UNCHANGED <<events, idIndex, rawA, rawB, evA, evB, sentLog, now>>

\* ReplyParser().get_selected_events(event_numbers); ret is the event list of
\* the collection it returns
GetSelectedEventsCall(event_numbers) ==
    /\ ret' = GetSelectedEvents(tracking, LoadEvents(ToList(Coll)),
                                event_numbers, now).events
    /\ tracker' = LoadTrackingData(tracking)
    /\ op' = [name |-> "get_selected_events", event_numbers |-> event_numbers]
    /\ UNCHANGED <<events, idIndex, rawA, rawB, evA, evB, tracking, sentLog,
                   outbox, now>>

NextDigest ==
    \/ \E scraped \in ScrapedLists : Scrape(scraped)
    \/ Tick
    \/ \E max_events \in MaxEventsChoices, test_mode, delivered \in BOOLEAN :
          SendDigestCall(max_events, test_mode, delivered)
    \/ \E event_numbers \in NumberLists : GetSelectedEventsCall(event_numbers)

SpecDigest == InitDigest /\ [][NextDigest]_vars

-----------------------------------------------------------------------------
(* Vocabulary of the properties, stated without the operators above *)

\* the number of positions at which both lower-cased names carry the same
\* character
SamePositions(n1, n2) ==
    Cardinality({i \in 1..Len(n1) :
                    i <= Len(n2) /\ LowerChar(n1[i]) = LowerChar(n2[i])})

LongerLen(n1, n2) == IF Len(n1) >= Len(n2) THEN Len(n1) ELSE Len(n2)

\* same calendar day and name similarity strictly above 0.8 (= 4/5)
SameDaySimilar(r1, r2) ==
    /\ r1.date.day = r2.date.day
    /\ \/ LongerLen(r1.name, r2.name) = 0
       \/ 5 * SamePositions(r1.name, r2.name) > 4 * LongerLen(r1.name, r2.name)

\* r1 and r2 are duplicates in the fuzzy sense
FuzzyDuplicates(r1, r2) == r1.event_id = r2.event_id \/ SameDaySimilar(r1, r2)

Members(evs) == {evs[k] : k \in DOMAIN evs}

Ids(evs) == {evs[k].event_id : k \in DOMAIN evs}

\* no two records at different positions are duplicates of each other
PairwiseDistinct(evs) ==
    \A i, j \in DOMAIN evs : i # j => ~FuzzyDuplicates(evs[i], evs[j])

\* no two records at different positions carry the same event_id
UniqueIds(evs) ==
    \A i, j \in DOMAIN evs : evs[i].event_id = evs[j].event_id => i = j

\* the map's keys are the ids of the sequence, and each value is a record of
\* the sequence kept under its own id
KeysInSync(evs, index) ==
    /\ DOMAIN index = Ids(evs)
    /\ \A id \in DOMAIN index : index[id] \in Members(evs) /\ index[id].event_id = id

\* moreover every record of the sequence is the map's value under its id
FullyInSync(evs, index) ==
    /\ KeysInSync(evs, index)
    /\ \A k \in DOMAIN evs : index[evs[k].event_id] = evs[k]

RECURSIVE Pick(_, _, _)
\* the elements of q at the positions in S from position i on, in order
Pick(q, S, i) ==
    IF i > Len(q) THEN <<>>
    ELSE (IF i \in S THEN <<q[i]>> ELSE <<>>) \o Pick(q, S, i + 1)

IsSubsequence(sub, q) == \E S \in SUBSET DOMAIN q : sub = Pick(q, S, 1)

CalledAdd == op.name = "add"
CalledAddMany == op.name = "add_many"
CalledRemoveDuplicates == op.name = "remove_duplicates"

-----------------------------------------------------------------------------
(* C1 *)

-----------------------------------------------------------------------------
(* C2 *)

CheckedGrowth ==
    \/ (CalledAdd \/ CalledAddMany) /\ op.check_duplicates
    \/ op.name = "sort_by_date"

-----------------------------------------------------------------------------
(* C3 *)

-----------------------------------------------------------------------------
(* C4 *)

\* C4: after remove_duplicates() the sequence is a subsequence of the former
\* one in the former order, no two of its records share an event_id or are
\* fuzzy duplicates, its first record is the former first record, and the map
\* is exactly event_id -> record for the records kept.
C4_RemoveDuplicatesResult ==
    [][ CalledRemoveDuplicates' =>
          /\ IsSubsequence(events', events)
          /\ PairwiseDistinct(events')
          /\ UniqueIds(events')
          /\ events # <<>> => events' # <<>> /\ events'[1] = events[1]
          /\ DOMAIN idIndex' = Ids(events')
          /\ \A k \in DOMAIN events' : idIndex'[events'[k].event_id] = events'[k]
      ]_vars

\* one record was dropped and two records with different names were kept
C4_Witness ==
    /\ CalledRemoveDuplicates
    /\ ret = 1
    /\ Len(events) = 2
    /\ events[1].name # events[2].name
    /\ events[1].date.day = events[2].date.day

-----------------------------------------------------------------------------
(* C5 *)

\* C5: remove_duplicates() returns the number of records it dropped; three
\* records of which the first two share an event_id and the third duplicates
\* neither give 1 and size 2; the same record twice gives 1 and size 1.
C5_RemovedCount ==
    [][ CalledRemoveDuplicates' =>
          /\ ret' = Len(events) - Len(events')
          /\ ( /\ Len(events) = 3
               /\ events[1].event_id = events[2].event_id
               /\ ~FuzzyDuplicates(events[3], events[1])
               /\ ~FuzzyDuplicates(events[3], events[2]) )
             => ret' = 1 /\ Len(events') = 2
          /\ (Len(events) = 2 /\ events[1] = events[2])
             => ret' = 1 /\ Len(events') = 1 ]_vars

\* one of two records was dropped
C5_Witness ==
    /\ CalledRemoveDuplicates
    /\ ret = 1
    /\ Len(events) = 1

-----------------------------------------------------------------------------
(* C6 *)

\* C6: merging is idempotent: add_many(L, check_duplicates=True) called again
\* with the same L right after returns 0 and changes neither the sequence nor
\* the map; and add_many of records that are already members adds nothing.
C6_MergeIdempotent ==
    [][ (CalledAddMany' /\ op'.check_duplicates) =>
          /\ (CalledAddMany /\ op.check_duplicates /\ op'.batch = op.batch) =>
                ret' = 0 /\ events' = events /\ idIndex' = idIndex
          /\ Members(op'.batch) \subseteq Members(events) =>
                ret' = 0 /\ events' = events /\ idIndex' = idIndex ]_vars

\* a non-empty list merged once more into a collection of the greatest
\* explored length: only the repeated call is offered there
C6_Witness ==
    /\ CalledAddMany /\ op.check_duplicates
    /\ op.batch # <<>>
    /\ Len(events) = MaxEvents
    /\ ret = 0

-----------------------------------------------------------------------------
(* C7 *)

\* whether the record at position i of the list is accepted, given the set A
\* of positions accepted before it
AcceptedAt(batch, check, A, i) ==
    \/ ~check
    \/ /\ batch[i].event_id \notin DOMAIN idIndex
       /\ \A k \in A : k < i => batch[k].event_id # batch[i].event_id
       /\ \A m \in Members(events) : ~FuzzyDuplicates(batch[i], m)
       /\ \A k \in A : k < i => ~FuzzyDuplicates(batch[i], batch[k])

\* C7: add_many(records, check_duplicates) has the effect of add on each
\* record in input order (a record is accepted when unchecked, or when neither
\* a member nor a record accepted before it is its duplicate), appends the
\* accepted records in input order, registers them and returns their number;
\* of two input records that are duplicates of each other and of nothing
\* before them, the earlier one is kept and the later one is not.
C7_AddManySequential ==
    [][ CalledAddMany' =>
          LET batch == op'.batch
              check == op'.check_duplicates
          IN  \E A \in SUBSET DOMAIN batch :
                 /\ \A i \in DOMAIN batch : i \in A <=> AcceptedAt(batch, check, A, i)
                 /\ events' = events \o Pick(batch, A, 1)
                 /\ ret' = Cardinality(A)
                 /\ DOMAIN idIndex' = DOMAIN idIndex \cup {batch[i].event_id : i \in A}
                 /\ \A id \in DOMAIN idIndex' :
                       LET hits == {i \in A : batch[i].event_id = id}
                       IN  IF hits = {} THEN idIndex'[id] = idIndex[id]
                           ELSE idIndex'[id] =
                                  batch[CHOOSE i \in hits : \A j \in hits : j <= i]
                 /\ \A i, j \in DOMAIN batch :
                       ( /\ check /\ i < j
                         /\ FuzzyDuplicates(batch[i], batch[j])
                         /\ ~HasDuplicate(Coll, batch[i], TRUE)
                         /\ \A k \in 1..(i - 1) : ~FuzzyDuplicates(batch[i], batch[k]) )
                       => i \in A /\ j \notin A ]_vars

\* of two different records that are fuzzy duplicates of each other, the
\* first of the list was appended and the second was not
C7_Witness ==
    /\ CalledAddMany /\ op.check_duplicates
    /\ Len(op.batch) = 2
    /\ op.batch[1].event_id # op.batch[2].event_id
    /\ FuzzyDuplicates(op.batch[1], op.batch[2])
    /\ ret = 1
    /\ events # <<>> /\ events[Len(events)] = op.batch[1]

-----------------------------------------------------------------------------
(* C8, C9, C10: two records *)

Constructed == op.name # "init"

BothIdsGenerated == Falsy(rawA.event_id) /\ Falsy(rawB.event_id)

\* C8: two records constructed without a supplied event_id whose normalized
\* name, calendar date and normalized location are identical have the same
\* event_id, whatever their time of day, source_url, description,
\* contact_email, source and scraped_at.
C8_SameKeySameId ==
    ( /\ Constructed /\ BothIdsGenerated
      /\ evA.name = evB.name
      /\ evA.date.day = evB.date.day
      /\ evA.location = evB.location )
    => evA.event_id = evB.event_id

\* differently written names and locations that normalize to the same, at
\* different times of the same day, from different sources
C8_Witness ==
    /\ Constructed /\ BothIdsGenerated
    /\ rawA.name # rawB.name /\ evA.name = evB.name
    /\ rawA.location # rawB.location /\ evA.location = evB.location
    /\ evA.date.day = evB.date.day /\ evA.date.time # evB.date.time
    /\ evA.source_url # evB.source_url
    /\ evA.description # evB.description
    /\ evA.event_id = evB.event_id

\* C9: two records constructed without a supplied event_id whose (normalized
\* name, calendar date, normalized location) differ get different event_ids.
C9_DifferentKeyDifferentId ==
    ( /\ Constructed /\ BothIdsGenerated
      /\ \/ evA.name # evB.name
         \/ evA.date.day # evB.date.day
         \/ evA.location # evB.location )
    => evA.event_id # evB.event_id

\* C10: is_duplicate_of(other, fuzzy) is True when the event_ids are equal,
\* whatever fuzzy is; False when fuzzy is False and the ids differ; and with
\* fuzzy True and different ids it is True exactly when the calendar dates are
\* equal and the similarity of the lower-cased names is strictly above 0.8.
C10_IsDuplicateOf ==
    op.name = "is_duplicate_of" =>
        /\ evA.event_id = evB.event_id => ret = TRUE
        /\ (evA.event_id # evB.event_id /\ ~op.fuzzy) => ret = FALSE
        /\ (evA.event_id # evB.event_id /\ op.fuzzy) =>
              (ret = TRUE <=> SameDaySimilar(evA, evB))

\* records with different ids and different names found to be duplicates
C10_Witness ==
    /\ op.name = "is_duplicate_of" /\ op.fuzzy
    /\ evA.event_id # evB.event_id
    /\ Lower(evA.name) # Lower(evB.name)
    /\ ret = TRUE

-----------------------------------------------------------------------------
(* C11 *)

\* the positions below the shorter length at which s1 and s2 carry the same
\* character
EqualPositions(s1, s2) ==
    {i \in 1..Len(s1) : i <= Len(s2) /\ s1[i] = s2[i]}

\* the longer of s1 and s2, the first one on a length tie
LongerFirstOnTie(s1, s2) == IF Len(s1) >= Len(s2) THEN s1 ELSE s2

\* C11: the similarity of two strings is the number of positions below the
\* shorter string's length at which both carry the same character, divided by
\* the length of the longer string (the first argument on a length tie); it is
\* 1.0 when the longer string is empty.
C11_StringSimilarity ==
    op.name = "_string_similarity" =>
        LET longer == LongerFirstOnTie(evA.name, evB.name)
            matches == Cardinality(EqualPositions(evA.name, evB.name))
        IN  /\ ret[2] > 0
            /\ longer = <<>> => ret[1] = ret[2]
            /\ longer # <<>> => ret[1] * Len(longer) = matches * ret[2]

\* two different names of the same length that agree at some positions and
\* differ at others
C11_Witness ==
    /\ op.name = "_string_similarity"
    /\ Len(evA.name) = Len(evB.name)
    /\ evA.name # evB.name
    /\ ret[1] > 0
    /\ ret[1] < ret[2]

-----------------------------------------------------------------------------
(* C12 *)

\* C12: two records of the same calendar date and location named
\* 'NYC Food Festival' and 'NYC Food Fest' have different event_ids, a name
\* similarity above 0.8, and is_duplicate_of(fuzzy=True) reports them as
\* duplicates.
C12_FoodFestDuplicates ==
    ( /\ op.name = "is_duplicate_of"
      /\ op.fuzzy
      /\ evA.name = NycFoodFestival
      /\ evB.name = NycFoodFest
      /\ evA.date.day = evB.date.day
      /\ evA.location = evB.location )
    => /\ evA.event_id # evB.event_id
       /\ 5 * Cardinality(EqualPositions(Lower(evA.name), Lower(evB.name)))
            > 4 * Len(evA.name)
       /\ ret = TRUE

-----------------------------------------------------------------------------
(* C13 *)

\* the names 'Event 1', 'Event 2', 'Event 3'
NumberedNames == {<<"E","v","e","n","t"," ",d>> : d \in {"1", "2", "3"}}

\* C13: a record named 'Event 1', 'Event 2' or 'Event 3' that is added with
\* duplicate checking to a collection which started empty and holds only
\* records of the same calendar date and location with other names of these
\* three is accepted: add returns True, the collection has one more member and
\* get_by_id finds the record under its event_id.
C13_NumberedEventsAccepted ==
    [][ ( /\ CalledAdd' /\ op'.check_duplicates
          /\ op'.event.name \in NumberedNames
          /\ \A m \in Members(events) :
                /\ m.name \in NumberedNames \ {op'.event.name}
                /\ m.date.day = op'.event.date.day
                /\ m.location = op'.event.location )
        => /\ ret' = TRUE
           /\ events' = Append(events, op'.event)
           /\ op'.event.event_id \in DOMAIN idIndex'
           /\ idIndex'[op'.event.event_id] = op'.event ]_vars

-----------------------------------------------------------------------------
(* C14 *)

\* C14: text normalization is idempotent: normalizing a normalized text, also
\* one that came from a text with control characters between whitespace,
\* returns it unchanged.
C14_CleanTextIdempotent ==
    op.name = "_clean_text" => ret = evA[op.field]

-----------------------------------------------------------------------------
(* C15 *)

\* no two adjacent whitespace characters, no control character other than
\* newline, no whitespace at either end
Normalized(text) ==
    /\ \A i \in 1..(Len(text) - 1) :
          ~(text[i] \in Whitespace /\ text[i + 1] \in Whitespace)
    /\ \A i \in 1..Len(text) : IsControl(text[i]) => text[i] = "\n"
    /\ text # <<>> => text[1] \notin Whitespace /\ text[Len(text)] \notin Whitespace

\* C15: in every constructed record the name, the location and a present
\* description have no run of two or more whitespace characters, no character
\* below ordinal 32 other than newline and no leading or trailing whitespace,
\* and a generated event_id is the identifier of these normalized values.
C15_FieldsNormalized ==
    Constructed =>
        /\ Normalized(evA.name)
        /\ Normalized(evA.location)
        /\ evA.description # None => Normalized(evA.description)
        /\ Falsy(rawA.event_id) =>
              evA.event_id = Md5Hex12(evA.name \o <<"|">> \o DateIso(evA.date)
                                        \o <<"|">> \o evA.location)

-----------------------------------------------------------------------------
(* C16 *)

\* C16: no record with an empty name or an empty location is ever
\* constructed: a name or location that is empty after normalization is
\* refused with a validation error.
C16_NoEmptyNameOrLocation ==
    Constructed => evA.name # <<>> /\ evA.location # <<>>

-----------------------------------------------------------------------------
(* C17 *)

\* a word starts or ends between positions i-1 and i of s
AtWordEdge(s, i) ==
    (i > 1 /\ IsWordChar(s[i - 1])) # (i <= Len(s) /\ IsWordChar(s[i]))

\* s[i..j] is an address: a local part, "@", a domain, ".", and a top-level
\* part of two or more characters, between two word edges
IsAddressAt(s, i, j) ==
    /\ AtWordEdge(s, i) /\ AtWordEdge(s, j + 1)
    /\ \E at \in (i + 1)..j, dot \in (i + 3)..(j - 2) :
          /\ at + 2 <= dot
          /\ s[at] = "@" /\ s[dot] = "."
          /\ \A k \in i..(at - 1) : IsLocalChar(s[k])
          /\ \A k \in (at + 1)..(dot - 1) : IsDomainChar(s[k])
          /\ \A k \in (dot + 1)..j : IsTldChar(s[k])

AddressStarts(s) ==
    {i \in 1..Len(s) : \E j \in i..Len(s) : IsAddressAt(s, i, j)}

\* C17: a constructed record keeps a contact_email that was supplied; with
\* none supplied and an address in the description, contact_email is an
\* address of the description that starts at the leftmost position where one
\* starts; with no description, or none that holds an address, contact_email
\* stays empty.
C17_ContactEmail ==
    Constructed =>
        LET d == evA.description
            supplied == ~Falsy(rawA.contact_email)
            found == ~Falsy(d) /\ AddressStarts(d) # {}
        IN  /\ supplied => evA.contact_email = rawA.contact_email
            /\ (~supplied /\ found) =>
                  \E i \in AddressStarts(d), j \in 1..Len(d) :
                     /\ \A k \in AddressStarts(d) : i <= k
                     /\ IsAddressAt(d, i, j)
                     /\ evA.contact_email = SubSeq(d, i, j)
            /\ (~supplied /\ ~found) => Falsy(evA.contact_email)

\* the description names two addresses and the first one became the contact
C17_Witness ==
    /\ Constructed
    /\ rawA.contact_email = None
    /\ evA.description = <<"x","@","y",".","i","o",","," ","a","@","b",".","c","o">>
    /\ evA.contact_email = <<"x","@","y",".","i","o">>

-----------------------------------------------------------------------------
(* C18 *)

\* C18: the collection rebuilt from from_dict applied to each element of
\* to_list() has the size of the original collection and the same set of
\* event_ids.
C18_RoundTrip ==
    [][ op'.name = "load" =>
          /\ Len(events') = Len(events)
          /\ Ids(events') = Ids(events) ]_vars

\* a reloaded collection of three records, two of them under one generated
\* event_id and one under an event_id that was supplied to the constructor
C18_Witness ==
    /\ op.name = "load"
    /\ Len(events) = 3
    /\ Cardinality(Ids(events)) = 2
    /\ SuppliedId \in Ids(events)

-----------------------------------------------------------------------------
(* C19 *)

\* the hours since the start of day 0
Hours(dt) == 24 * dt.day + dt.time

\* the positions of evs whose date lies between low and high hours
PositionsBetween(evs, low, high) ==
    {k \in DOMAIN evs : low <= Hours(evs[k].date) /\ Hours(evs[k].date) <= high}

\* five members on the consecutive days 0..4, in this order, at one time of day
FiveDays(evs) ==
    /\ Len(evs) = 5
    /\ \A k \in 1..5 : evs[k].date = [day |-> k - 1, time |-> AuxA.time]

\* C19: get_by_date_range(start, end) returns exactly the members with
\* start <= date <= end, both bounds included, in their order in the
\* collection, and leaves the collection unchanged; on five members at day
\* offsets -2..2 from a reference date the range from one day to two days
\* after the reference returns exactly the members at offsets +1 and +2.
C19_GetByDateRange ==
    [][ op'.name = "get_by_date_range" =>
          /\ events' = events /\ idIndex' = idIndex
          /\ ret' = Pick(events,
                         PositionsBetween(events, Hours(op'.start_date),
                                          Hours(op'.end_date)), 1)
          /\ ( /\ FiveDays(events)
               /\ op'.start_date = [day |-> 3, time |-> AuxA.time]
               /\ op'.end_date = [day |-> 4, time |-> AuxA.time] )
             => ret' = <<events[4], events[5]>> ]_vars

\* the range over the last two of five consecutive days returned two members,
\* both dated exactly at a bound of the range
C19_Witness ==
    /\ op.name = "get_by_date_range"
    /\ FiveDays(events)
    /\ op.start_date = [day |-> 3, time |-> AuxA.time]
    /\ op.end_date = [day |-> 4, time |-> AuxA.time]
    /\ Len(ret) = 2
    /\ ret[1].date = op.start_date
    /\ ret[2].date = op.end_date

-----------------------------------------------------------------------------
(* C20 *)

\* the largest number of hours a date of the model can have
LastHour == 24 * 10

\* C20: get_upcoming(from_date) returns exactly the members with
\* date >= from_date, the boundary included, in their order in the collection,
\* and leaves the collection unchanged: a member dated one day before
\* from_date is not returned and one dated one day after is.
C20_GetUpcoming ==
    [][ op'.name = "get_upcoming" =>
          /\ events' = events /\ idIndex' = idIndex
          /\ ret' = Pick(events,
                         PositionsBetween(events, Hours(op'.from_date), LastHour), 1)
          /\ \A k \in DOMAIN events :
                /\ Hours(events[k].date) = Hours(op'.from_date) - 24
                      => events[k] \notin Members(ret')
                /\ Hours(events[k].date) = Hours(op'.from_date) + 24
                      => events[k] \in Members(ret') ]_vars

\* members one day before, exactly at and one day after from_date: the first
\* was left out, the other two were returned
C20_Witness ==
    /\ op.name = "get_upcoming"
    /\ Len(events) = 3
    /\ Hours(events[1].date) = Hours(op.from_date) + 24
    /\ Hours(events[2].date) = Hours(op.from_date) - 24
    /\ events[3].date = op.from_date
    /\ ret = <<events[1], events[3]>>

-----------------------------------------------------------------------------
(* C21 *)

\* the one-to-one maps of the positions of evs onto themselves
Rearrangements(evs) ==
    {p \in [DOMAIN evs -> DOMAIN evs] :
        \A i, j \in DOMAIN evs : p[i] = p[j] => i = j}

\* C21: sort_by_date(reverse) rearranges the records of the sequence so that
\* the dates are non-decreasing (non-increasing when reverse is true) and
\* records of equal date keep their previous relative order; no record is
\* added or lost and the id map is unchanged.
C21_SortByDate ==
    [][ op'.name = "sort_by_date" =>
          /\ idIndex' = idIndex
          /\ Len(events') = Len(events)
          /\ \E p \in Rearrangements(events) :
                /\ \A k \in DOMAIN events : events'[k] = events[p[k]]
                /\ \A i, j \in DOMAIN events :
                      i < j =>
                         LET di == Hours(events'[i].date)
                             dj == Hours(events'[j].date)
                         IN  /\ op'.reverse => di >= dj
                             /\ ~op'.reverse => di <= dj
                             /\ di = dj => p[i] < p[j] ]_vars

\* after a descending sort of three records: the first is dated later than the
\* other two, which are different records of one date
C21_Witness ==
    /\ op.name = "sort_by_date" /\ op.reverse
    /\ Len(events) = 3
    /\ Hours(events[1].date) > Hours(events[2].date)
    /\ events[2].date = events[3].date
    /\ events[2] # events[3]

-----------------------------------------------------------------------------
(* C22 *)

\* the ids of the outreach emails in box
OutreachIds(box) ==
    {box[k].event_id : k \in {j \in DOMAIN box : box[j].kind = "outreach"}}

Elements(q) == {q[k] : k \in DOMAIN q}

\* C22: send_outreach_for_events skips every event whose event_id is in the
\* persisted sent history when the call starts: no email goes out for it and
\* its id is in neither the 'sent' nor the 'failed' list of the result; the
\* other events of the call are processed, each id ending in 'sent' or in
\* 'failed'.
C22_SkipAlreadySent ==
    [][ op'.name = "send_outreach_for_events" =>
          \A k \in DOMAIN op'.events :
             LET id == op'.events[k].event_id
             IN  IF id \in Elements(sentLog.sent_events)
                 THEN /\ id \notin Elements(ret'.sent)
                      /\ id \notin Elements(ret'.failed)
                      /\ \A j \in (Len(outbox) + 1)..Len(outbox') :
                            outbox'[j].event_id # id
                 ELSE id \in Elements(ret'.sent) \cup Elements(ret'.failed) ]_vars

\* a call with an event that was sent before and one that was not: the first
\* was skipped, the second sent
C22_Witness ==
    /\ op.name = "send_outreach_for_events" /\ ~op.test_mode
    /\ Len(op.events) = 2
    /\ Len(outbox) = 2
    /\ outbox[1].event_id = op.events[1].event_id
    /\ outbox[2].event_id = op.events[2].event_id
    /\ ret = [sent |-> <<op.events[2].event_id>>, failed |-> <<>>]

-----------------------------------------------------------------------------
(* C23 *)

TrackedIds == {e.event_id : e \in TrackedUniverse}

FilteredNow == op.name = "filter_new_events"

SentIds(data) == DOMAIN data.sent_events

-----------------------------------------------------------------------------
(* C24 *)

\* the list holds three records of one day of which the one at position mid
\* is a fuzzy duplicate of the other two, which are not duplicates of each
\* other
ChainAround(evs, mid) ==
    /\ Len(evs) = 3
    /\ mid \in DOMAIN evs
    /\ \A k \in DOMAIN evs : evs[k].date.day = evs[mid].date.day
    /\ \A k \in DOMAIN evs \ {mid} : FuzzyDuplicates(evs[mid], evs[k])
    /\ \A j, k \in DOMAIN evs \ {mid} : j # k => ~FuzzyDuplicates(evs[j], evs[k])

\* C24: remove_duplicates is first-seen-wins and order-dependent: of three
\* same-day records A, B, C with A~B and B~C fuzzy duplicates and A, C not
\* duplicates, the sequence (A, B, C) is reduced to (A, C) and the sequence
\* (B, A, C) is reduced to (B).
C24_OrderDependent ==
    [][ CalledRemoveDuplicates' =>
          /\ ChainAround(events, 2) => events' = <<events[1], events[3]>>
          /\ ChainAround(events, 1) => events' = <<events[1]>> ]_vars

\* remove_duplicates has just removed one record of three and left two
\* same-day records that are not duplicates of each other
C24_Witness ==
    /\ CalledRemoveDuplicates
    /\ ret = 1
    /\ Len(events) = 2
    /\ events[1].date.day = events[2].date.day
    /\ events[1].name = Evant1
    /\ events[2].name = Event2

-----------------------------------------------------------------------------
(* C25 *)

\* C25: is_duplicate_of is reflexive and symmetric for either value of fuzzy:
\* a record is a duplicate of itself, a.is_duplicate_of(b, fuzzy) equals
\* b.is_duplicate_of(a, fuzzy), and the similarity score of two names is the
\* same in both argument orders, also when the names have equal length.
C25_ReflexiveSymmetric ==
    /\ op.name = "is_duplicate_of" =>
          /\ ret = IsDuplicateOf(evB, evA, op.fuzzy)
          /\ IsDuplicateOf(evA, evA, op.fuzzy)
          /\ IsDuplicateOf(evB, evB, op.fuzzy)
    /\ op.name = "_string_similarity" =>
          LET swapped == StringSimilarity(evB.name, evA.name)
          IN  ret[1] * swapped[2] = swapped[1] * ret[2]

\* a fuzzy comparison of two records with different ids and different names
\* of equal length that reports a duplicate
C25_Witness ==
    /\ op.name = "is_duplicate_of"
    /\ op.fuzzy
    /\ ret = TRUE
    /\ evA.event_id # evB.event_id
    /\ Len(evA.name) = Len(evB.name)
    /\ evA.name # evB.name

-----------------------------------------------------------------------------
(* C26 *)

\* C26: after any sequence of add (checked or not), add_many,
\* remove_duplicates and sort_by_date, get_by_id(id) returns a record that is
\* in the sequence and carries the id, and returns None exactly when no record
\* of the sequence carries the id; a record that remove_duplicates dropped is
\* never returned.
C26_GetById ==
    op.name = "get_by_id" =>
        /\ op.event_id \in DOMAIN idIndex <=> op.event_id \in Ids(events)
        /\ op.event_id \in Ids(events) =>
              /\ ret \in Members(events)
              /\ ret.event_id = op.event_id
        /\ op.event_id \notin Ids(events) => ret = None

\* get_by_id has found a record under an id that two records of the sequence
\* carry
C26_Witness ==
    /\ op.name = "get_by_id"
    /\ \E j, k \in DOMAIN events :
          /\ j # k
          /\ events[j].event_id = op.event_id
          /\ events[k].event_id = op.event_id
    /\ ret \in Members(events)

-----------------------------------------------------------------------------
(* C27 *)

\* the fields that to_dict writes
PersistedFields ==
    {"event_id", "name", "date", "location", "source_url", "contact_email",
     "description", "source", "scraped_at"}

\* the record's event_id is the one generate_id derives from its own fields
HasDerivedId(e) == e.event_id = GenerateId(e.name, e.date, e.location)

\* C27: from_dict(to_dict(e)) has the same event_id, name, date, location,
\* source_url, contact_email, description, source and scraped_at as the
\* constructed record e, and its event_id is still the identifier derived from
\* its own name, calendar date and location when e's was.
C27_RecordRoundTrip ==
    op.name = "from_dict" =>
        /\ \A field \in PersistedFields : ret[field] = evA[field]
        /\ HasDerivedId(evA) => HasDerivedId(ret)

-----------------------------------------------------------------------------
(* C28 *)

\* C28: across any sequence of send_outreach_for_events calls a successful
\* outreach email is sent at most once per event_id, also when one call's
\* list holds the same event_id more than once, and an event_id is in the
\* persisted sent history only if a real send for it succeeded.
C28_AtMostOncePerEvent ==
    /\ \A j, k \in DOMAIN outbox :
          outbox[j].event_id = outbox[k].event_id => j = k
    /\ Elements(sentLog.sent_events) \subseteq OutreachIds(outbox)

-----------------------------------------------------------------------------
(* C29 *)

\* C29: send_digest marks an event as sent only if the event was listed in a
\* digest that was emailed successfully: an event left out of the digest
\* (dated before the digest date, or beyond the max_events cap) is not marked,
\* and nothing is marked in test mode or when sending fails.
C29_MarkedOnlyIfListed ==
    [][ op'.name = "send_digest" =>
          LET marked == SentIds(tracking') \ SentIds(tracking)
          IN  /\ (op'.test_mode \/ ~op'.delivered) => tracking' = tracking
              /\ marked # {} =>
                    /\ Len(outbox') = Len(outbox) + 1
                    /\ marked \subseteq Ids(outbox'[Len(outbox')].listed) ]_vars

-----------------------------------------------------------------------------
(* C30 *)

\* C30: a selection number N resolves to the event shown as #N in the most
\* recently sent digest: get_selected_events returns, for the numbers of the
\* reply in order, the events at those positions of the digest's list, and
\* numbers outside 1..(number of listed events) select nothing.
C30_NumbersResolve ==
    (op.name = "get_selected_events" /\ outbox # <<>>) =>
        LET listed == outbox[Len(outbox)].listed
            InList(n) == 1 <= n /\ n <= Len(listed)
            picks == SelectSeq(op.event_numbers, InList)
        IN  ret = [k \in DOMAIN picks |-> listed[picks[k]]]

=============================================================================
